---------------------------- MODULE Spec2Model ----------------------------
(***************************************************************************)
(* cargo-download: resolution and retrieval pipeline of src/main.rs with   *)
(* the crate specification parser of src/args.rs.                          *)
(*                                                                         *)
(* Strings are sequences of one-character strings.  Option<T> is a         *)
(* sequence of length 0 (None) or 1 (Some).                                *)
(***************************************************************************)
EXTENDS Integers, Sequences, FiniteSets, TLC

(***************************************************************************)
(* Bounds of the model.                                                    *)
(***************************************************************************)
\* longest version array a registry response carries
MaxListLen == 4
\* longest downloaded archive body, in bytes
MaxBytes == 2

(***************************************************************************)
(* Characters and strings.                                                 *)
(***************************************************************************)
\* the alphabet the inputs are written in: digits, a few letters, and the
\* punctuation " ", "=", ".", "-", "_", "+", ",", "^", "~", "<", ">", "*"
Digits == {"0", "1", "2", "3", "4", "5", "6", "7", "8", "9"}
Letters == {"a", "b", "e", "t", "x"}

DigitVal(c) ==
  CASE c = "0" -> 0 [] c = "1" -> 1 [] c = "2" -> 2 [] c = "3" -> 3
    [] c = "4" -> 4 [] c = "5" -> 5 [] c = "6" -> 6 [] c = "7" -> 7
    [] c = "8" -> 8 [] c = "9" -> 9

DigitChar(d) ==
  CASE d = 0 -> "0" [] d = 1 -> "1" [] d = 2 -> "2" [] d = 3 -> "3"
    [] d = 4 -> "4" [] d = 5 -> "5" [] d = 6 -> "6" [] d = 7 -> "7"
    [] d = 8 -> "8" [] d = 9 -> "9"

\* byte value of a character, the order String's Ord compares by
CharCode(c) ==
  CASE c \in Digits -> 48 + DigitVal(c)
    [] c = "-" -> 45
    [] c = "a" -> 97 [] c = "b" -> 98 [] c = "e" -> 101
    [] c = "t" -> 116 [] c = "x" -> 120
    [] OTHER -> 0

is_whitespace(c) == c = " "

\* char::is_alphanumeric
is_alphanumeric(c) == c \in Digits \cup Letters

RECURSIVE TrimStart(_)
TrimStart(s) ==
  IF s # <<>> /\ is_whitespace(Head(s)) THEN TrimStart(Tail(s)) ELSE s

RECURSIVE TrimEnd(_)
TrimEnd(s) ==
  IF s # <<>> /\ is_whitespace(s[Len(s)])
    THEN TrimEnd(SubSeq(s, 1, Len(s) - 1))
    ELSE s

\* str::trim
Trim(s) == TrimEnd(TrimStart(s))

\* index of the first occurrence of character c in s, 0 when there is none
RECURSIVE IndexFrom(_, _, _)
IndexFrom(s, c, i) ==
  IF i > Len(s) THEN 0
  ELSE IF s[i] = c THEN i
  ELSE IndexFrom(s, c, i + 1)

IndexOf(s, c) == IndexFrom(s, c, 1)

\* str::split(c): the pieces of s between occurrences of c
RECURSIVE Split(_, _)
RECURSIVE SplitAt(_, _, _)
SplitAt(s, c, i) ==
  IF i = 0 THEN <<s>>
  ELSE <<SubSeq(s, 1, i - 1)>> \o Split(SubSeq(s, i + 1, Len(s)), c)

Split(s, c) == SplitAt(s, c, IndexOf(s, c))

\* s cut at index i: what is before and what is after, all of s when i = 0
CutAt(s, i) ==
  IF i = 0 THEN <<s>>
  ELSE <<SubSeq(s, 1, i - 1), SubSeq(s, i + 1, Len(s))>>

\* str::splitn(2, c): split at the first occurrence of c only
Splitn2(s, c) == CutAt(s, IndexOf(s, c))

RECURSIVE Join(_, _)
Join(parts, sep) ==
  IF parts = <<>> THEN <<>>
  ELSE IF Len(parts) = 1 THEN parts[1]
  ELSE parts[1] \o sep \o Join(Tail(parts), sep)

(***************************************************************************)
(* semver::Version -- parsing, formatting and precedence.                  *)
(***************************************************************************)
AllDigits(s) == \A i \in 1..Len(s) : s[i] \in Digits

\* the characters [0-9A-Za-z-] of a pre-release or build identifier
AllIdentChars(s) == \A i \in 1..Len(s) : s[i] \in Digits \cup Letters \cup {"-"}

\* a numeric identifier: "0", or digits without a leading zero
IsNumericIdent(s) ==
  /\ s # <<>>
  /\ AllDigits(s)
  /\ (Len(s) = 1 \/ s[1] # "0")

RECURSIVE ParseNat(_)
ParseNat(s) ==
  IF s = <<>> THEN 0
  ELSE 10 * ParseNat(SubSeq(s, 1, Len(s) - 1)) + DigitVal(s[Len(s)])

RECURSIVE NatToStr(_)
NatToStr(n) ==
  IF n < 10 THEN <<DigitChar(n)>>
  ELSE NatToStr(n \div 10) \o <<DigitChar(n % 10)>>

\* semver::Identifier: Numeric(u64) or AlphaNumeric(String)
Numeric(n) == [num |-> TRUE, n |-> n, s |-> <<>>]
AlphaNumeric(s) == [num |-> FALSE, n |-> 0, s |-> s]

ParseIdent(s) == IF IsNumericIdent(s) THEN Numeric(ParseNat(s)) ELSE AlphaNumeric(s)

IdentToStr(id) == IF id.num THEN NatToStr(id.n) ELSE id.s

\* dot-separated identifiers of a pre-release or build part
IdentsOk(parts) ==
  \A i \in 1..Len(parts) : parts[i] # <<>> /\ AllIdentChars(parts[i])

MetaOk(s) == IdentsOk(Split(s, "."))

ParseIdents(parts) == [i \in 1..Len(parts) |-> ParseIdent(parts[i])]

ParseMeta(s) == ParseIdents(Split(s, "."))

MetaToStr(ids) == Join([i \in 1..Len(ids) |-> IdentToStr(ids[i])], <<".">>)

MkVersion(major, minor, patch, pre, build) ==
  [major |-> major, minor |-> minor, patch |-> patch, pre |-> pre, build |-> build]

NoVersion == MkVersion(0, 0, 0, <<>>, <<>>)

\* the version of its pieces: nums the dot-separated core, cp the text cut at
\* the first "-", bp the text cut at the first "+"
VersionOfNums(nums, cp, bp) ==
  IF /\ Len(nums) = 3
     /\ \A i \in 1..3 : IsNumericIdent(nums[i])
     /\ (Len(cp) = 2 => MetaOk(cp[2]))
     /\ (Len(bp) = 2 => MetaOk(bp[2]))
    THEN [ok |-> TRUE,
          v |-> MkVersion(ParseNat(nums[1]), ParseNat(nums[2]), ParseNat(nums[3]),
                          IF Len(cp) = 2 THEN ParseMeta(cp[2]) ELSE <<>>,
                          IF Len(bp) = 2 THEN ParseMeta(bp[2]) ELSE <<>>)]
    ELSE [ok |-> FALSE, v |-> NoVersion]

VersionOfCore(cp, bp) == VersionOfNums(Split(cp[1], "."), cp, bp)

VersionOfBuildCut(bp) == VersionOfCore(Splitn2(bp[1], "-"), bp)

\* Version::parse / Version::from_str: MAJOR.MINOR.PATCH[-PRE][+BUILD],
\* surrounding whitespace ignored
VersionParse(str) == VersionOfBuildCut(Splitn2(Trim(str), "+"))

\* Display for Version
VersionToStr(v) ==
  NatToStr(v.major) \o <<".">> \o NatToStr(v.minor) \o <<".">> \o NatToStr(v.patch)
    \o (IF v.pre = <<>> THEN <<>> ELSE <<"-">> \o MetaToStr(v.pre))
    \o (IF v.build = <<>> THEN <<>> ELSE <<"+">> \o MetaToStr(v.build))

\* -1, 0, 1 for less, equal, greater
CmpInt(a, b) == IF a < b THEN -1 ELSE IF a > b THEN 1 ELSE 0

RECURSIVE CmpStr(_, _)
CmpStr(a, b) ==
  IF a = <<>> /\ b = <<>> THEN 0
  ELSE IF a = <<>> THEN -1
  ELSE IF b = <<>> THEN 1
  ELSE IF CharCode(Head(a)) # CharCode(Head(b))
    THEN CmpInt(CharCode(Head(a)), CharCode(Head(b)))
  ELSE CmpStr(Tail(a), Tail(b))

\* Ord for Identifier: numeric below alphanumeric
CmpIdent(a, b) ==
  IF a.num /\ b.num THEN CmpInt(a.n, b.n)
  ELSE IF a.num THEN -1
  ELSE IF b.num THEN 1
  ELSE CmpStr(a.s, b.s)

\* Ord for Vec<Identifier>: lexicographic
RECURSIVE CmpIdents(_, _)
CmpIdents(a, b) ==
  IF a = <<>> /\ b = <<>> THEN 0
  ELSE IF a = <<>> THEN -1
  ELSE IF b = <<>> THEN 1
  ELSE IF CmpIdent(Head(a), Head(b)) # 0 THEN CmpIdent(Head(a), Head(b))
  ELSE CmpIdents(Tail(a), Tail(b))

\* pre-release precedence: a version without pre-release is above one with
CmpPre(a, b) ==
  IF a = <<>> /\ b = <<>> THEN 0
  ELSE IF a = <<>> THEN 1
  ELSE IF b = <<>> THEN -1
  ELSE CmpIdents(a, b)

\* Ord for Version: major, minor, patch, pre-release; build metadata ignored
VersionCmp(a, b) ==
  IF a.major # b.major THEN CmpInt(a.major, b.major)
  ELSE IF a.minor # b.minor THEN CmpInt(a.minor, b.minor)
  ELSE IF a.patch # b.patch THEN CmpInt(a.patch, b.patch)
  ELSE CmpPre(a.pre, b.pre)

(***************************************************************************)
(* semver::VersionReq -- a conjunction of predicates.                      *)
(***************************************************************************)
MkPredicate(op, major, minor, patch, pre) ==
  [op |-> op, major |-> major, minor |-> minor, patch |-> patch, pre |-> pre]

NoPredicate == MkPredicate("Ex", 0, <<>>, <<>>, <<>>)

IsWildcardStr(s) == s \in {<<"*">>, <<"x">>, <<"X">>}

StartsWith(s, p) == Len(s) >= Len(p) /\ SubSeq(s, 1, Len(p)) = p

\* the operator a predicate text starts with, and its length
OpOf(s) ==
  IF StartsWith(s, <<">", "=">>) THEN <<"GtEq", 2>>
  ELSE IF StartsWith(s, <<"<", "=">>) THEN <<"LtEq", 2>>
  ELSE IF StartsWith(s, <<"=">>) THEN <<"Ex", 1>>
  ELSE IF StartsWith(s, <<">">>) THEN <<"Gt", 1>>
  ELSE IF StartsWith(s, <<"<">>) THEN <<"Lt", 1>>
  ELSE IF StartsWith(s, <<"~">>) THEN <<"Tilde", 1>>
  ELSE IF StartsWith(s, <<"^">>) THEN <<"Compatible", 1>>
  ELSE <<"Compatible", 0>>

\* the comparator of its pieces: op the operator read, nums the dot-separated
\* core, cp the text after the operator cut at the first "-"
PredicateOfNums(op, nums, cp) ==
  IF /\ Len(nums) \in 1..3
     /\ \A i \in 1..Len(nums) : IsNumericIdent(nums[i]) \/ IsWildcardStr(nums[i])
     /\ (Len(cp) = 2 => MetaOk(cp[2]))
    THEN [ok |-> TRUE,
          p |-> IF IsWildcardStr(nums[1])
                  THEN MkPredicate("WildcardMajor", 0, <<>>, <<>>, <<>>)
                ELSE IF Len(nums) >= 2 /\ IsWildcardStr(nums[2])
                  THEN MkPredicate("WildcardMinor", ParseNat(nums[1]), <<>>, <<>>, <<>>)
                ELSE IF Len(nums) >= 3 /\ IsWildcardStr(nums[3])
                  THEN MkPredicate("WildcardPatch", ParseNat(nums[1]),
                                   <<ParseNat(nums[2])>>, <<>>, <<>>)
                ELSE MkPredicate(op, ParseNat(nums[1]),
                       IF Len(nums) >= 2 THEN <<ParseNat(nums[2])>> ELSE <<>>,
                       IF Len(nums) >= 3 THEN <<ParseNat(nums[3])>> ELSE <<>>,
                       IF Len(cp) = 2 THEN ParseMeta(cp[2]) ELSE <<>>)]
    ELSE [ok |-> FALSE, p |-> NoPredicate]

PredicateOfCut(op, cp) == PredicateOfNums(op, Split(cp[1], "."), cp)

PredicateOfOp(s, o) ==
  PredicateOfCut(o[1], Splitn2(TrimStart(SubSeq(s, o[2] + 1, Len(s))), "-"))

PredicateOfText(s) == PredicateOfOp(s, OpOf(s))

\* one comparator: [OP] MAJOR[.MINOR[.PATCH]][-PRE], parts may be wildcards
ParsePredicate(str) == PredicateOfText(Trim(str))

\* the requirement the text "*" parses to, in place of any()
VersionReqStar == [predicates |-> <<MkPredicate("WildcardMajor", 0, <<>>, <<>>, <<>>)>>]

\* VersionReq::any(): no predicates
VersionReqAny == [predicates |-> <<>>]

\* VersionReq::exact(v)
VersionReqExact(v) ==
  [predicates |-> <<MkPredicate("Ex", v.major, <<v.minor>>, <<v.patch>>, v.pre)>>]

ReqOfParsed(parsed) ==
  IF \A i \in 1..Len(parsed) : parsed[i].ok
    THEN [ok |-> TRUE, r |-> [predicates |-> [i \in 1..Len(parsed) |-> parsed[i].p]]]
    ELSE [ok |-> FALSE, r |-> VersionReqAny]

ReqOfParts(parts) == ReqOfParsed([i \in 1..Len(parts) |-> ParsePredicate(parts[i])])

\* VersionReq::parse / VersionReq::from_str: comma-separated comparators;
\* the empty text and a lone wildcard are the major wildcard
VersionReqParse(s) ==
  IF s = <<>> \/ IsWildcardStr(s)
    THEN [ok |-> TRUE,
          r |-> [predicates |-> <<MkPredicate("WildcardMajor", 0, <<>>, <<>>, <<>>)>>]]
    ELSE ReqOfParts(Split(Trim(s), ","))

\* Predicate::is_exact
PredIsExact(p, v) ==
  IF p.major # v.major THEN FALSE
  ELSE IF p.minor = <<>> THEN TRUE
  ELSE IF p.minor[1] # v.minor THEN FALSE
  ELSE IF p.patch = <<>> THEN TRUE
  ELSE IF p.patch[1] # v.patch THEN FALSE
  ELSE p.pre = v.pre

\* Predicate::is_greater
PredIsGreater(p, v) ==
  IF p.major # v.major THEN v.major > p.major
  ELSE IF p.minor = <<>> THEN FALSE
  ELSE IF p.minor[1] # v.minor THEN v.minor > p.minor[1]
  ELSE IF p.patch = <<>> THEN FALSE
  ELSE IF p.patch[1] # v.patch THEN v.patch > p.patch[1]
  ELSE IF p.pre # <<>> THEN v.pre = <<>> \/ CmpIdents(v.pre, p.pre) > 0
  ELSE FALSE

\* Predicate::pre_is_compatible
PredPreIsCompatible(p, v) == v.pre = <<>> \/ CmpIdents(v.pre, p.pre) >= 0

\* Predicate::matches_tilde
PredMatchesTilde(p, v) ==
  IF p.minor = <<>> THEN p.major = v.major
  ELSE IF p.patch = <<>> THEN p.major = v.major /\ p.minor[1] = v.minor
  ELSE /\ p.major = v.major
       /\ p.minor[1] = v.minor
       /\ (v.patch > p.patch[1] \/ (v.patch = p.patch[1] /\ PredPreIsCompatible(p, v)))

\* Predicate::is_compatible (the caret operator)
PredIsCompatible(p, v) ==
  IF p.major # v.major THEN FALSE
  ELSE IF p.minor = <<>> THEN TRUE
  ELSE IF p.patch = <<>>
    THEN IF p.major = 0 THEN v.minor = p.minor[1] ELSE v.minor >= p.minor[1]
  ELSE IF p.major = 0
    THEN IF p.minor[1] = 0
           THEN v.minor = 0 /\ v.patch = p.patch[1] /\ PredPreIsCompatible(p, v)
           ELSE /\ v.minor = p.minor[1]
                /\ (v.patch > p.patch[1]
                      \/ (v.patch = p.patch[1] /\ PredPreIsCompatible(p, v)))
  ELSE \/ v.minor > p.minor[1]
       \/ /\ v.minor = p.minor[1]
          /\ (v.patch > p.patch[1] \/ (v.patch = p.patch[1] /\ PredPreIsCompatible(p, v)))

\* Predicate::matches
PredMatches(p, v) ==
  CASE p.op = "Ex" -> PredIsExact(p, v)
    [] p.op = "Gt" -> PredIsGreater(p, v)
    [] p.op = "GtEq" -> PredIsExact(p, v) \/ PredIsGreater(p, v)
    [] p.op = "Lt" -> ~PredIsExact(p, v) /\ ~PredIsGreater(p, v)
    [] p.op = "LtEq" -> ~PredIsGreater(p, v)
    [] p.op = "Tilde" -> PredMatchesTilde(p, v)
    [] p.op = "Compatible" -> PredIsCompatible(p, v)
    [] p.op = "WildcardMajor" -> TRUE
    [] p.op = "WildcardMinor" -> p.major = v.major
    [] p.op = "WildcardPatch" ->
         p.major = v.major /\ p.minor # <<>> /\ p.minor[1] = v.minor

\* Predicate::pre_tag_is_compatible: a pre-release version is admitted only by
\* a comparator on the same major.minor.patch that itself has a pre-release tag
PredPreTagIsCompatible(p, v) ==
  \/ v.pre = <<>>
  \/ /\ p.major = v.major
     /\ p.minor = <<v.minor>>
     /\ p.patch = <<v.patch>>
     /\ p.pre # <<>>

\* VersionReq::matches
ReqMatches(r, v) ==
  \/ r.predicates = <<>>
  \/ /\ \A i \in 1..Len(r.predicates) : PredMatches(r.predicates[i], v)
     /\ \E i \in 1..Len(r.predicates) : PredPreTagIsCompatible(r.predicates[i], v)

\* Display for Op
OpToStr(op) ==
  CASE op = "Ex" -> <<"=", " ">>
    [] op = "Gt" -> <<">", " ">>
    [] op = "GtEq" -> <<">", "=", " ">>
    [] op = "Lt" -> <<"<", " ">>
    [] op = "LtEq" -> <<"<", "=", " ">>
    [] op = "Tilde" -> <<"~">>
    [] op = "Compatible" -> <<"^">>
    [] OTHER -> <<>>

\* Display for Predicate
PredToStr(p) ==
  CASE p.op = "WildcardMajor" -> <<"*">>
    [] p.op = "WildcardMinor" -> NatToStr(p.major) \o <<".", "*">>
    [] p.op = "WildcardPatch" ->
         NatToStr(p.major) \o <<".">>
           \o (IF p.minor = <<>> THEN <<"*">> ELSE NatToStr(p.minor[1])) \o <<".", "*">>
    [] OTHER ->
         OpToStr(p.op) \o NatToStr(p.major)
           \o (IF p.minor = <<>> THEN <<>> ELSE <<".">> \o NatToStr(p.minor[1]))
           \o (IF p.patch = <<>> THEN <<>> ELSE <<".">> \o NatToStr(p.patch[1]))
           \o (IF p.pre = <<>> THEN <<>> ELSE <<"-">> \o MetaToStr(p.pre))

\* Display for VersionReq
ReqToStr(r) ==
  IF r.predicates = <<>> THEN <<"*">>
  ELSE Join([i \in 1..Len(r.predicates) |-> PredToStr(r.predicates[i])], <<",", " ">>)

(***************************************************************************)
(* args.rs -- the crate specification.                                     *)
(***************************************************************************)
\* enum CrateVersion { Exact(Version), Other(VersionReq) }
Exact(v) == [exact |-> TRUE, v |-> v, r |-> VersionReqAny]
Other(r) == [exact |-> FALSE, v |-> NoVersion, r |-> r]

\* struct Crate { name, version }
MkCrate(name, version) == [name |-> name, version |-> version]

NoCrate == MkCrate(<<>>, Other(VersionReqAny))

\* Version::from_str(..)? wrapped in Exact, a failure as Syntax
ExactOf(pv) ==
  IF pv.ok THEN [ok |-> TRUE, version |-> Exact(pv.v), err |-> ""]
  ELSE [ok |-> FALSE, version |-> Other(VersionReqAny), err |-> "Syntax"]

\* VersionReq::from_str(..)? wrapped in Other, a failure as Semantics
OtherOf(pr) ==
  IF pr.ok THEN [ok |-> TRUE, version |-> Other(pr.r), err |-> ""]
  ELSE [ok |-> FALSE, version |-> Other(VersionReqAny), err |-> "Semantics"]

\* CrateVersion::from_str
CrateVersion_from_str(s) ==
  IF StartsWith(s, <<"=">>)
    THEN ExactOf(VersionParse(SubSeq(s, 2, Len(s))))
    ELSE OtherOf(VersionReqParse(s))

\* a name check that lets every character through
valid_name_lax(name) == TRUE

\* the name check of Crate::from_str
valid_name(name) ==
  \A i \in 1..Len(name) : is_alphanumeric(name[i]) \/ name[i] = "-" \/ name[i] = "_"

\* Crate::from_str with a version part: CrateVersion::from_str(parts[1])?
CrateWithVersion(name, cv) ==
  IF cv.ok THEN [ok |-> TRUE, crate |-> MkCrate(name, cv.version), err |-> ""]
  ELSE [ok |-> FALSE, crate |-> NoCrate, err |-> cv.err]

\* Crate::from_str, once the text is split and trimmed
CrateOfParts(parts) ==
  IF Len(parts) < 2
    THEN IF valid_name(parts[1])
           THEN [ok |-> TRUE, crate |-> MkCrate(parts[1], Other(VersionReqAny)),
                 err |-> ""]
           ELSE [ok |-> FALSE, crate |-> NoCrate, err |-> "Name"]
    ELSE CrateWithVersion(parts[1], CrateVersion_from_str(parts[2]))

TrimAll(parts) == [i \in 1..Len(parts) |-> Trim(parts[i])]

\* Crate::from_str
Crate_from_str(s) == CrateOfParts(TrimAll(Splitn2(s, "=")))

\* exact_version that never reports an exact version
exact_version_none(c) == <<>>

\* Crate::exact_version
exact_version(c) == IF c.version.exact THEN <<c.version.v>> ELSE <<>>

\* Crate::version_requirement
version_requirement(c) ==
  IF c.version.exact THEN VersionReqExact(c.version.v) ELSE c.version.r

\* Display for CrateVersion without the "=" that marks an exact version
CrateVersionToStrBare(cv) ==
  IF cv.exact THEN VersionToStr(cv.v) ELSE ReqToStr(cv.r)

\* Display for CrateVersion
CrateVersionToStr(cv) ==
  IF cv.exact THEN <<"=">> \o VersionToStr(cv.v) ELSE ReqToStr(cv.r)

\* Display for Crate
CrateToStr(c) == c.name \o <<"=">> \o CrateVersionToStr(c.version)

(***************************************************************************)
(* main.rs -- registry access.                                             *)
(***************************************************************************)
\* serde_json::Value, as much of it as the lister looks at
JNull == [t |-> "null", s |-> <<>>, a |-> <<>>, o |-> <<>>]
JStr(s) == [t |-> "str", s |-> s, a |-> <<>>, o |-> <<>>]
JArr(a) == [t |-> "arr", s |-> <<>>, a |-> a, o |-> <<>>]
\* an object is a sequence of <<key, value>> pairs
JObj(o) == [t |-> "obj", s |-> <<>>, a |-> <<>>, o |-> o]

\* Value::get(key) on an object: Option<Value>
JGet(j, key) ==
  IF j.t = "obj" /\ \E i \in 1..Len(j.o) : j.o[i][1] = key
    THEN <<j.o[CHOOSE i \in 1..Len(j.o) : j.o[i][1] = key][2]>>
    ELSE <<>>

\* URL as the path segments below the API host
CRATES_API_ROOT == <<"api", "v1", "crates">>

versions_url(name) == CRATES_API_ROOT \o <<name, "versions">>

download_url(name, version) == CRATES_API_ROOT \o <<name, VersionToStr(version), "download">>

NoError == [kind |-> "", url |-> <<>>]

\* Result::ok
ResultOk(pv) == IF pv.ok THEN <<pv.v>> ELSE <<>>

\* n.as_str() and Version::parse(v).ok()
NumVersion(num) ==
  IF num # <<>> /\ num[1].t = "str" THEN ResultOk(VersionParse(num[1].s)) ELSE <<>>

\* the version number of one record of the array: object, "num", string, parsable
EntryVersion(e) == NumVersion(JGet(e, "num"))

RECURSIVE FilterVersions(_)
FilterVersions(a) ==
  IF a = <<>> THEN <<>>
  ELSE EntryVersion(Head(a)) \o FilterVersions(Tail(a))

\* a missing array taken for an empty one
VersionsOfLax(vs) ==
  IF vs # <<>> /\ vs[1].t = "arr" THEN <<FilterVersions(vs[1].a)>> ELSE << <<>> >>

\* and_then(as_array).map(..)
VersionsOf(vs) ==
  IF vs # <<>> /\ vs[1].t = "arr" THEN <<FilterVersions(vs[1].a)>> ELSE <<>>

\* response.pointer("/versions").and_then(as_array).map(..): Option<Vec<Version>>
ParseVersions(json) == VersionsOf(JGet(json, "versions"))

\* insert v into a list sorted from newest to oldest, after its equals
RECURSIVE InsertDesc(_, _)
InsertDesc(sorted, v) ==
  IF sorted = <<>> THEN <<v>>
  ELSE IF VersionCmp(v, Head(sorted)) > 0 THEN <<v>> \o sorted
  ELSE <<Head(sorted)>> \o InsertDesc(Tail(sorted), v)

\* the list left in arrival order
SortSkipped(versions) == versions

\* versions.sort_by(|a, b| b.cmp(a)): stable, newest first
RECURSIVE SortDesc(_)
SortDesc(versions) ==
  IF versions = <<>> THEN <<>>
  ELSE InsertDesc(SortDesc(SubSeq(versions, 1, Len(versions) - 1)), versions[Len(versions)])

\* versions.into_iter().find(|v| version_req.matches(v))
RECURSIVE FindMatch(_, _)
FindMatch(versions, req) ==
  IF versions = <<>> THEN <<>>
  ELSE IF ReqMatches(req, Head(versions)) THEN <<Head(versions)>>
  ELSE FindMatch(Tail(versions), req)

LookupError(kind, url) ==
  [ok |-> FALSE, v |-> NoVersion, err |-> [kind |-> kind, url |-> url]]

\* main.rs:179-181: find(..).ok_or_else(..)
FoundOrError(found) ==
  IF found = <<>> THEN LookupError("no matching version found", <<>>)
  ELSE [ok |-> TRUE, v |-> found[1], err |-> NoError]

\* main.rs:171-181: ok_or_else(malformed)?, the emptiness check, sort and find
NewestOf(crate_, versions) ==
  IF versions = <<>>
    THEN LookupError("malformed response from", versions_url(crate_.name))
  ELSE IF versions[1] = <<>> THEN LookupError("no valid versions found", <<>>)
  ELSE FoundOrError(FindMatch(SortDesc(versions[1]), version_requirement(crate_)))

\* get_newest_version, given what the registry answers
get_newest_version(crate_, response) ==
  IF response.kind # "json" THEN LookupError("reqwest", <<>>)
  ELSE NewestOf(crate_, ParseVersions(response.json))

\* download_crate, given what the registry answers
download_crate(name, version, response) ==
  IF response.ok
    THEN [ok |-> TRUE, bytes |-> response.body, err |-> NoError]
    ELSE [ok |-> FALSE, bytes |-> <<>>, err |-> [kind |-> "reqwest", url |-> <<>>]]

(***************************************************************************)
(* Inputs: command lines, registry answers, archive bodies, files found.   *)
(***************************************************************************)
\* crate names as typed, with and without surrounding blanks
PlainArgs ==
  { <<>>, <<" ">>, <<"a", "b">>, <<" ", "a", "b", " ">>, <<"a", " ", "b">>,
    <<"a", ".", "b">>, <<"a", "-", "_", "1">> }

ConstrainedNames == { <<"a", "b">> }

\* the text after the first "="
ConstraintTexts ==
  { <<"=", "1", ".", "2", ".", "0">>,
    <<"=", "1", ".", "3", ".", "0", "-", "b">>,
    <<"=", "1", ".", "0", ".", "0", "+", "x">>,
    <<"=", " ", "2", ".", "0", ".", "0">>,
    <<"=", "1", ".", "0", ".", "0", "-", "b", ".", "1", "+", "x", ".", "0", "2">>,
    <<"=", "1", ".", "2">>,
    <<"=", "0", "1", ".", "0", ".", "0">>,
    <<"^", "1", ".", "0", ".", "0">>,
    <<" ", "~", "1", ".", "2">>,
    <<">", "=", "1", ".", "2", ".", "0">>,
    <<"<", "2", ".", "0", ".", "0">>,
    <<">", "1", ".", "0", ".", "0", ",", " ", "<", "=", "1", ".", "2", ".", "0">>,
    <<"*">>,
    <<"1", ".", "*">>,
    <<>>,
    <<"1", ".", "2", ".", "0">>,
    <<"^", "1", ".", "3", ".", "0", "-", "a">>,
    <<"3">>,
    <<"^", "x", "b">>,
    <<"1", ".", "2", ".", "3", ".", "4">> }

CrateArgs ==
  PlainArgs
    \cup { n \o <<"=">> \o c : n \in ConstrainedNames, c \in ConstraintTexts }
    \cup { <<"=", "=", "1", ".", "2", ".", "0">>,
           <<"a", " ", "b", "=", "=", "1", ".", "2", ".", "0">>,
           <<"a", " ", "b", " ", "=", " ", "^", "1", ".", "0", ".", "0">> }

\* Option<Output>: None, Some(Stdout), Some(Path(p))
Outputs == { <<>>, <<"Stdout">>, <<"Path">> }

\* version numbers the registry lists, one of them no semantic version
RegistryNums ==
  { <<"1", ".", "0", ".", "0">>, <<"1", ".", "2", ".", "0">>,
    <<"1", ".", "3", ".", "0", "-", "b", "e", "t", "a">>, <<"2", ".", "0", ".", "0">>,
    <<"x">> }

\* records of the versions array, one of them no object
RegistryEntries ==
  { JObj(<< <<"num", JStr(s)>> >>) : s \in RegistryNums } \cup { JStr(<<"x">>) }

IsInjective(f) == \A i, j \in DOMAIN f : f[i] = f[j] => i = j

\* version arrays, in any arrival order
VersionArrays ==
  UNION { { a \in [1..k -> RegistryEntries] : IsInjective(a) } : k \in 0..MaxListLen }

JsonDocs ==
  { JObj(<<>>), JArr(<<>>), JObj(<< <<"versions", JStr(<<"x">>)>> >>),
    JObj(<< <<"num", JStr(<<"1", ".", "0", ".", "0">>)>> >>) }
    \cup { JObj(<< <<"versions", JArr(a)>> >>) : a \in VersionArrays }

\* what the version-list query comes back with: a transport error, a body
\* that is empty or no JSON, or a JSON document
RegistryResponses ==
  { [kind |-> "error", json |-> JNull], [kind |-> "notjson", json |-> JNull] }
    \cup { [kind |-> "json", json |-> j] : j \in JsonDocs }

\* the first bytes of a gzip stream
GzMagic == <<31, 139>>

Bytes == { 0, 31, 139 }

Bodies == UNION { [1..k -> Bytes] : k \in 0..MaxBytes }

DownloadResponses ==
  { [ok |-> FALSE, body |-> <<>>] } \cup { [ok |-> TRUE, body |-> b] : b \in Bodies }

\* what is at the output path when it is opened
ExistingFiles ==
  { [exists |-> FALSE, data |-> <<>>] }
    \cup { [exists |-> TRUE, data |-> [i \in 1..k |-> 7]] : k \in 0..(MaxBytes + 1) }

(***************************************************************************)
(* main.rs -- the run.                                                     *)
(***************************************************************************)
VARIABLES
  pc,          \* where main is: start, parsed, resolved, fetched, extracted,
               \* done, exit, panic
  argv,        \* the command line: CRATE argument, -x flag, output option
  opts,        \* the parsed options
  version,     \* Option<Version>: the version to download
  crate_bytes, \* the downloaded archive
  stdout,      \* bytes written to standard output
  file,        \* the output file: whether it exists and its content
  dir,         \* where the extracted tree is: "", "cwd", "moved"
  exit_code,   \* "", "OK", "USAGE", "TEMPFAIL", "IOERR", "PANIC"
  err,         \* the error reported
  trace,       \* requests and file-system operations performed, in order
  stages,      \* pipeline stages completed, in order
  shape,       \* what kind of answer the version-list query got
  registry     \* Option: the answer the registry has for a version-list
               \* query when that is settled beforehand, None when it is open

vars ==
  <<pc, argv, opts, version, crate_bytes, stdout, file, dir, exit_code, err, trace,
    stages, shape, registry>>

NoOpts == [crate_ |-> NoCrate, extract |-> FALSE, output |-> <<>>]

Event(op, url) == [op |-> op, url |-> url]

Started ==
  /\ pc = "start"
  /\ opts = NoOpts
  /\ version = <<>>
  /\ crate_bytes = <<>>
  /\ stdout = <<>>
  /\ file = [exists |-> FALSE, data |-> <<>>]
  /\ dir = ""
  /\ exit_code = ""
  /\ err = NoError
  /\ trace = <<>>
  /\ stages = <<>>
  /\ shape = ""

Init ==
  /\ Started
  /\ argv \in [crate : CrateArgs, extract : BOOLEAN, output : Outputs]
  /\ registry = <<>>

\* runs of the resolution stages against each answer of the registry
InitLister ==
  /\ Started
  /\ argv \in [crate : CrateArgs, extract : {FALSE}, output : {<<>>}]
  /\ registry \in { <<r>> : r \in RegistryResponses }

\* main.rs:60-63: args::parse().unwrap_or_else(.. exit(USAGE)); the command
\* line is taken to hold a CRATE argument, so that the only parse error is
\* the one of Crate::from_str
ParseArgs ==
  /\ pc = "start"
  /\ \E r \in {Crate_from_str(argv.crate)} :
        IF r.ok
          THEN /\ opts' = [crate_ |-> r.crate, extract |-> argv.extract,
                           output |-> argv.output]
               /\ pc' = "parsed"
               /\ stages' = Append(stages, "Parsed")
               /\ UNCHANGED <<exit_code, err>>
          ELSE /\ pc' = "exit"
               /\ exit_code' = "USAGE"
               /\ err' = [kind |-> r.err, url |-> <<>>]
               /\ UNCHANGED <<opts, stages>>
  /\ UNCHANGED <<argv, version, crate_bytes, stdout, file, dir, trace, shape, registry>>

\* main.rs:68-72: an exact version needs no query
UseExactVersion ==
  /\ pc = "parsed"
  /\ exact_version(opts.crate_) # <<>>
  /\ version' = exact_version(opts.crate_)
  /\ pc' = "resolved"
  /\ stages' = Append(stages, "ResolvedExact")
  /\ UNCHANGED <<argv, opts, crate_bytes, stdout, file, dir, exit_code, err, trace, shape, registry>>

\* the kind of answer: what the body is, before the lister reads it
ShapeOf(response) ==
  IF response.kind = "error" THEN "transport error"
  ELSE IF response.kind = "notjson" THEN "no json"
  ELSE IF \E i \in 1..Len(response.json.o) :
            response.json.o[i][1] = "versions" /\ response.json.o[i][2].t = "arr"
    THEN "versions array"
  ELSE "no versions array"

\* main.rs:73-76: unwrap_or_else(.. exit(TEMPFAIL)) on the lister's result
AfterResolve(res) ==
  IF res.ok THEN [pc |-> "resolved", exit_code |-> ""]
  ELSE [pc |-> "exit", exit_code |-> "TEMPFAIL"]

\* main.rs:73: get_newest_version(&opts.crate_)
QueryVersions ==
  /\ pc = "parsed"
  /\ exact_version(opts.crate_) = <<>>
  /\ \E response \in (IF registry = <<>> THEN RegistryResponses ELSE {registry[1]}) :
       \E res \in {get_newest_version(opts.crate_, response)} :
        \E next \in {AfterResolve(res)} :
          /\ trace' = Append(trace, Event("query", versions_url(opts.crate_.name)))
          /\ shape' = ShapeOf(response)
          /\ pc' = next.pc
          /\ exit_code' = next.exit_code
          /\ err' = res.err
          /\ version' = IF res.ok THEN <<res.v>> ELSE <<>>
          /\ stages' = IF res.ok THEN Append(stages, "Resolved") ELSE stages
  /\ UNCHANGED <<argv, opts, crate_bytes, stdout, file, dir, registry>>

\* a handler that logs the failure and goes on
AfterDownloadNoExit(res) == [pc |-> "fetched", exit_code |-> ""]

\* main.rs:78-81: unwrap_or_else(.. exit(TEMPFAIL)) on the download's result
AfterDownload(res) ==
  IF res.ok THEN [pc |-> "fetched", exit_code |-> ""]
  ELSE [pc |-> "exit", exit_code |-> "TEMPFAIL"]

\* main.rs:78: download_crate(&opts.crate_.name(), &version)
Download ==
  /\ pc = "resolved"
  /\ \E response \in DownloadResponses :
       \E res \in {download_crate(opts.crate_.name, version[1], response)} :
        \E next \in {AfterDownload(res)} :
          /\ trace' = Append(trace,
                        Event("download", download_url(opts.crate_.name, version[1])))
          /\ pc' = next.pc
          /\ exit_code' = next.exit_code
          /\ err' = res.err
          /\ crate_bytes' = res.bytes
          /\ stages' = IF res.ok THEN Append(stages, "Fetched") ELSE stages
  /\ UNCHANGED <<argv, opts, version, stdout, file, dir, shape, registry>>

\* GzDecoder::new reads the header at once and refuses bytes that do not
\* start a gzip stream
GzHeaderOk(bytes) ==
  Len(bytes) >= Len(GzMagic) /\ SubSeq(bytes, 1, Len(GzMagic)) = GzMagic

\* main.rs:83-111: decode and unpack into the current directory
Extract ==
  /\ pc = "fetched"
  /\ opts.extract
  /\ IF ~GzHeaderOk(crate_bytes)
       THEN \* main.rs:90: GzDecoder::new(..).unwrap() on an Err
            /\ pc' = "panic"
            /\ exit_code' = "PANIC"
            /\ UNCHANGED <<dir, err, trace, stages>>
       ELSE \E unpacked \in BOOLEAN :
              /\ trace' = Append(trace, Event("unpack", <<>>))
              /\ IF unpacked
                   THEN /\ dir' = "cwd"
                        /\ IF opts.output = <<"Path">>
                             THEN /\ pc' = "extracted"
                                  /\ UNCHANGED <<exit_code, stages>>
                             ELSE /\ pc' = "done"
                                  /\ exit_code' = "OK"
                                  /\ stages' = Append(stages, "Materialized")
                        /\ UNCHANGED err
                   ELSE /\ pc' = "exit"
                        /\ exit_code' = "TEMPFAIL"
                        /\ err' = [kind |-> "extract", url |-> <<>>]
                        /\ UNCHANGED <<dir, stages>>
  /\ UNCHANGED <<argv, opts, version, crate_bytes, stdout, file, shape, registry>>

\* main.rs:97-104: move the extracted directory to the path asked for
Rename ==
  /\ pc = "extracted"
  /\ trace' = Append(trace, Event("rename", <<>>))
  /\ \E renamed \in BOOLEAN :
       IF renamed
         THEN /\ dir' = "moved"
              /\ pc' = "done"
              /\ exit_code' = "OK"
              /\ stages' = Append(stages, "Materialized")
              /\ UNCHANGED err
         ELSE /\ pc' = "exit"
              /\ exit_code' = "IOERR"
              /\ err' = [kind |-> "rename", url |-> <<>>]
              /\ UNCHANGED <<dir, stages>>
  /\ UNCHANGED <<argv, opts, version, crate_bytes, stdout, file, shape, registry>>

\* Write::write: an error, or the number of bytes of buf it took
WriteResults(buf) ==
  { [ok |-> FALSE, n |-> 0] }
    \cup { [ok |-> TRUE, n |-> k] : k \in (IF buf = <<>> THEN {0} ELSE 1..Len(buf)) }

\* a write at offset 0 of a file opened without truncation
Overwrite(old, new) == new \o SubSeq(old, Len(new) + 1, Len(old))

\* main.rs:115: io::stdout().write(&crate_bytes).unwrap()
WriteStdout ==
  /\ pc = "fetched"
  /\ ~opts.extract
  /\ opts.output # <<"Path">>
  /\ trace' = Append(trace, Event("stdout", <<>>))
  /\ \E res \in WriteResults(crate_bytes) :
       IF res.ok
         THEN /\ stdout' = stdout \o SubSeq(crate_bytes, 1, res.n)
              /\ pc' = "done"
              /\ exit_code' = "OK"
              /\ stages' = Append(stages, "Materialized")
         ELSE /\ pc' = "panic"
              /\ exit_code' = "PANIC"
              /\ UNCHANGED <<stdout, stages>>
  /\ UNCHANGED <<argv, opts, version, crate_bytes, file, dir, err, shape, registry>>

\* main.rs:116-125: OpenOptions write(true).create(true), then file.write
WriteFile ==
  /\ pc = "fetched"
  /\ ~opts.extract
  /\ opts.output = <<"Path">>
  /\ \E found \in ExistingFiles, opened \in BOOLEAN :
       IF ~opened
         THEN /\ trace' = Append(trace, Event("open", <<>>))
              /\ file' = found
              /\ pc' = "exit"
              /\ exit_code' = "IOERR"
              /\ err' = [kind |-> "open", url |-> <<>>]
              /\ UNCHANGED stages
         ELSE \E res \in WriteResults(crate_bytes) :
                /\ trace' = trace \o <<Event("open", <<>>), Event("write", <<>>)>>
                /\ UNCHANGED err
                /\ IF res.ok
                     THEN /\ file' = [exists |-> TRUE,
                                      data |-> Overwrite(found.data,
                                                 SubSeq(crate_bytes, 1, res.n))]
                          /\ pc' = "done"
                          /\ exit_code' = "OK"
                          /\ stages' = Append(stages, "Materialized")
                     ELSE /\ file' = [exists |-> TRUE, data |-> found.data]
                          /\ pc' = "panic"
                          /\ exit_code' = "PANIC"
                          /\ UNCHANGED stages
  /\ UNCHANGED <<argv, opts, version, crate_bytes, stdout, dir, shape, registry>>

Next ==
  \/ ParseArgs
  \/ UseExactVersion
  \/ QueryVersions
  \/ Download
  \/ Extract
  \/ Rename
  \/ WriteStdout
  \/ WriteFile

Spec == Init /\ [][Next]_vars

NextLister ==
  \/ ParseArgs
  \/ UseExactVersion
  \/ QueryVersions

SpecLister == InitLister /\ [][NextLister]_vars

(***************************************************************************)
(* Properties.                                                             *)
(***************************************************************************)
\* largest major, minor and patch number of the versions matched against
MaxNum == 2

HasOp(op) == \E i \in 1..Len(trace) : trace[i].op = op

\* the name has a character that is no alphanumeric, "-" or "_"
NameHasBadChar(name) ==
  \E i \in 1..Len(name) : name[i] \notin Digits \cup Letters \cup {"-", "_"}

\* the argument has no "=": it is a name alone
NameOnly == IndexOf(argv.crate, "=") = 0

\* C1: a run whose parsed specification carries Exact(v) never issues a
\* version-list query; the only registry request it issues is the download of
\* that version.
C1_ExactNeverQueries ==
  opts.crate_.version.exact =>
    \A i \in 1..Len(trace) :
      /\ trace[i].op # "query"
      /\ trace[i].url # versions_url(opts.crate_.name)
      /\ trace[i].url # <<>> =>
           trace[i] = Event("download",
                        download_url(opts.crate_.name, opts.crate_.version.v))

C1_Witness == opts.crate_.version.exact /\ pc = "done" /\ HasOp("download")

\* C2: a specification without "=" whose name has a character other than an
\* alphanumeric, "-" or "_" fails to parse with the Name error, and the run
\* ends with the usage exit code without any request or file operation.
C2_InvalidNameNoRequest ==
  (pc # "start" /\ NameOnly /\ NameHasBadChar(Trim(argv.crate))) =>
    /\ pc = "exit"
    /\ exit_code = "USAGE"
    /\ err.kind = "Name"
    /\ trace = <<>>
    /\ stages = <<>>

C2_Witness == argv.crate = <<"a", " ", "b">> /\ pc = "exit" /\ err.kind = "Name"

\* the valid versions of the array the registry answers with
ListedVersions(response) ==
  IF ShapeOf(response) # "versions array" THEN {}
  ELSE LET a == JGet(response.json, "versions")[1].a
           num(i) == JGet(a[i], "num")
       IN { VersionParse(num(i)[1].s).v :
              i \in { j \in 1..Len(a) :
                        /\ num(j) # <<>>
                        /\ num(j)[1].t = "str"
                        /\ VersionParse(num(j)[1].s).ok } }

\* C3: when some version the registry lists satisfies the range constraint r,
\* the lister resolves to a listed version that satisfies r and that no listed
\* version satisfying r has precedence over, whatever the arrival order.
C3_NewestMatching ==
  (registry # <<>> /\ HasOp("query")) =>
    LET r == version_requirement(opts.crate_)
        matching == { v \in ListedVersions(registry[1]) : ReqMatches(r, v) }
    IN matching # {} =>
         /\ pc = "resolved"
         /\ version # <<>>
         /\ version[1] \in matching
         /\ \A w \in matching : VersionCmp(w, version[1]) <= 0

\* the list [1.0.0, 1.2.0, 1.3.0-beta, 2.0.0] asked for ^1.0.0 gives 1.2.0
C3_Witness ==
  /\ registry =
       << [kind |-> "json",
           json |-> JObj(<< <<"versions",
                     JArr(<< JObj(<< <<"num", JStr(<<"1", ".", "0", ".", "0">>)>> >>),
                             JObj(<< <<"num", JStr(<<"1", ".", "2", ".", "0">>)>> >>),
                             JObj(<< <<"num",
                                       JStr(<<"1", ".", "3", ".", "0", "-", "b", "e", "t",
                                              "a">>)>> >>),
                             JObj(<< <<"num", JStr(<<"2", ".", "0", ".", "0">>)>> >>)
                          >>)>> >>)] >>
  /\ argv.crate = <<"a", "b", "=", "^", "1", ".", "0", ".", "0">>
  /\ pc = "resolved"
  /\ version = <<MkVersion(1, 2, 0, <<>>, <<>>)>>

FsOps == {"unpack", "rename", "stdout", "open", "write"}

\* the place of an operation in a run
OpRank(op) ==
  CASE op = "query" -> 1
    [] op = "download" -> 2
    [] op \in {"unpack", "stdout", "open"} -> 3
    [] op \in {"rename", "write"} -> 4

StageAt(i) ==
  CASE i = 1 -> {"Parsed"}
    [] i = 2 -> {"Resolved", "ResolvedExact"}
    [] i = 3 -> {"Fetched"}
    [] i = 4 -> {"Materialized"}

\* C4: the stages complete in the order Parsed, Resolved or ResolvedExact,
\* Fetched, Materialized, each at most once; every operation is performed at
\* most once and in pipeline order; the download is requested only with a
\* version resolved, output is written or extracted only with the download
\* completed, the rename only with the archive unpacked; a failed run has
\* stopped for good.
C4_LinearFailFast ==
  /\ Len(stages) <= 4
  /\ \A i \in 1..Len(stages) : stages[i] \in StageAt(i)
  /\ \A i, j \in 1..Len(trace) :
       i < j => OpRank(trace[i].op) < OpRank(trace[j].op)
  /\ HasOp("query") => Len(stages) >= 1
  /\ HasOp("download") => Len(stages) >= 2 /\ version # <<>>
  /\ (\E op \in FsOps : HasOp(op)) => Len(stages) >= 3
  /\ HasOp("rename") => dir # ""
  /\ HasOp("write") => file.exists
  /\ (exit_code \notin {"", "OK"}) <=> (pc \in {"exit", "panic"})
  /\ pc \in {"exit", "panic", "done"} => ~ENABLED Next

C4_Witness == pc = "exit" /\ HasOp("download") /\ Len(stages) = 2

SamplePres ==
  { <<>>, <<AlphaNumeric(<<"b">>)>>, <<AlphaNumeric(<<"a">>), Numeric(1)>> }

SampleBuilds == { <<>>, <<AlphaNumeric(<<"x">>)>> }

\* semantic versions, with and without pre-release tag and build metadata
SampleVersions ==
  { MkVersion(a, b, c, p, bd) :
      a \in 0..MaxNum, b \in 0..MaxNum, c \in 0..MaxNum,
      p \in SamplePres, bd \in SampleBuilds }

\* C5: a valid name given without a constraint parses, and the constraint it
\* gets matches every semantic version, pre-release and build metadata
\* included.
C5_NameOnlyMatchesAll ==
  (pc # "start" /\ NameOnly /\ Trim(argv.crate) # <<>>
     /\ ~NameHasBadChar(Trim(argv.crate))) =>
    /\ stages # <<>>
    /\ opts.crate_.name = Trim(argv.crate)
    /\ ~opts.crate_.version.exact
    /\ \A v \in SampleVersions : ReqMatches(version_requirement(opts.crate_), v)

C5_Witness == argv.crate = <<"a", "-", "_", "1">> /\ pc = "parsed"

\* C6: parsing the empty string, or blanks only, fails with the Name error,
\* so that a crate parsed from a name alone has a non-empty name.
C6_EmptyNameRejected ==
  /\ (pc # "start" /\ NameOnly /\ Trim(argv.crate) = <<>>) =>
       exit_code = "USAGE" /\ err.kind = "Name"
  /\ (stages # <<>> /\ NameOnly) => opts.crate_.name # <<>>

\* C7: the Display output of a crate parsed with an exact version parses
\* back to the same crate: same name, same Exact version.
C7_ExactRoundTrip ==
  opts.crate_.version.exact =>
    Crate_from_str(CrateToStr(opts.crate_))
      = [ok |-> TRUE, crate |-> opts.crate_, err |-> ""]

C7_Witness ==
  /\ opts.crate_.version.exact
  /\ opts.crate_.version.v.pre # <<>>
  /\ opts.crate_.version.v.build # <<>>

\* the run failed in the lister: no version, no download
ListerFailed ==
  /\ pc = "exit"
  /\ exit_code = "TEMPFAIL"
  /\ version = <<>>
  /\ ~HasOp("download")

\* C8 as claimed: every answer that is empty, is no JSON or lacks the versions
\* array makes the lister fail with the malformed-response error naming the
\* queried URL, with no download afterwards.
C8_MalformedAlways ==
  shape \in {"no json", "no versions array"} =>
    /\ ListerFailed
    /\ err = [kind |-> "malformed response from",
              url |-> versions_url(opts.crate_.name)]

\* C8 as amended: a JSON answer without a versions array makes the lister fail
\* with the malformed-response error naming the queried URL; a body that is
\* empty or no JSON makes it fail with the HTTP client's error; either way the
\* run ends with the temporary-failure exit code and no download is issued.
C8_MalformedOrClientError ==
  /\ shape = "no versions array" =>
       /\ ListerFailed
       /\ err = [kind |-> "malformed response from",
                 url |-> versions_url(opts.crate_.name)]
  /\ shape = "no json" => ListerFailed /\ err.kind = "reqwest"

C8_Witness == shape = "no versions array" /\ pc = "exit" /\ HasOp("query")

\* C9: in extract mode a corrupt archive ends the run with the extraction
\* failure, never with a panic; the rename is attempted only after the
\* archive is unpacked, and its failure is reported as an I/O error.
C9_ExtractionFailureReported ==
  (opts.extract /\ Len(stages) >= 3 /\ pc # "fetched") =>
    /\ pc # "panic"
    /\ ~GzHeaderOk(crate_bytes) =>
         pc = "exit" /\ exit_code = "TEMPFAIL" /\ err.kind = "extract"
    /\ HasOp("rename") => dir # ""
    /\ err.kind = "rename" => exit_code = "IOERR" /\ dir = "cwd"

\* C10: in raw mode a run that completes has delivered exactly the downloaded
\* bytes to standard output or to the named file.
C10_RawOutputIsArchive ==
  (pc = "done" /\ ~opts.extract) =>
    IF opts.output = <<"Path">>
      THEN file = [exists |-> TRUE, data |-> crate_bytes]
      ELSE stdout = crate_bytes

=============================================================================
